---- MODULE Spec2Model ----
(***************************************************************************)
(* Booking conflict-resolution and slot-allocation engine of the EV        *)
(* charging station locator: backend/routes/bookings.js (user routes) and  *)
(* the admin status override of the admin router.                          *)
(*                                                                         *)
(* Time is counted in half hours (1 = 10:00, 2 = 10:30, 3 = 11:00, ...).   *)
(* The store runs each statement atomically on the rows committed so far   *)
(* (PostgreSQL's default READ COMMITTED level: the code never asks for     *)
(* another level and takes no lock), so a create transaction is one step   *)
(* per awaited query and its INSERT is visible to others only after COMMIT.*)
(***************************************************************************)
EXTENDS Integers, Sequences, FiniteSets, TLC

\* ---------------------------------------------------------------- bounds
MaxBookings == 2      \* booking rows the store may hold
MaxTime     == 4      \* instants 1..MaxTime
MaxSlots    == 2      \* largest total_slots of a station
MaxLogs     == 1      \* power-log rows the store may hold
MaxClock    == 1      \* instants of NOW() after the first
MaxEvents   == 2      \* events a listening client may have received

Procs       == 1..MaxBookings          \* concurrent POST /bookings requests
Times       == 1..MaxTime
Users       == {"u1", "u2"}            \* callers of the lifecycle routes
Creators    == {"u1"}                  \* callers of POST /bookings
Missing     == 0                       \* an absent body field / SQL NULL
StationIds  == {1}                     \* rows of the stations table
ReqStations == {1, 2}                  \* station_id values a caller may send
SlotInputs  == 0..MaxSlots             \* slot_number of the body, 0 = omitted
Windows     == (Times \cup {Missing}) \X (Times \cup {Missing})   \* <<start_time, end_time>> of the body
StatusInputs == {"pending", "active", "completed", "cancelled"}
Live        == {"active", "pending"}
DefaultRate == 2500                    \* pricing_per_hour of a station, in cents: pricing_per_hour || 25.00
PowerInputs == {-1, 1}                 \* power_kw of the body

VARIABLES
    stations,     \* stations table: id -> [total_slots, pricing_per_hour, status]
    bookings,     \* bookings table, committed rows; the row id is its index
    power_logs,   \* power_logs table, in insertion order
    pc,           \* per create request: the query it awaits next
    req,          \* per create request: req.body and req.auth.userId
    tx,           \* per create request: locals of the handler
    resp,         \* per create request: HTTP status sent (0 = none yet)
    now,          \* the store's NOW()
    lcall,        \* the status or power request that is between two of its queries
    lres,         \* HTTP status of the last answered status, power or cancel request
    rooms,        \* station ids whose room station_<id> a client has joined
    events        \* what the clients in those rooms have received, in order

vars == <<stations, bookings, power_logs, pc, req, tx, resp, now, lcall, lres, rooms, events>>

\* what the create handler never touches
lifeVars == <<now, lcall, lres, rooms>>
\* what the status, power and cancel handlers never touch
createVars == <<stations, pc, req, tx, resp, rooms>>

NoReq == [station_id |-> Missing, start_time |-> Missing, end_time |-> Missing,
          slot_number |-> Missing, userId |-> "u1"]
NoTx  == [total_slots |-> 0, pricing_per_hour |-> 0, count |-> 0, assigned |-> Missing,
          booking_id |-> Missing, begun |-> 0]
NoCall == [route |-> "none", id |-> Missing, power_kw |-> 0, station_id |-> Missing]

BookingIds == 1..Len(bookings)

\* ------------------------------------------------------ the SQL predicates
\* x BETWEEN lo AND hi
Between(x, lo, hi) == lo <= x /\ x <= hi

\* the conflict count written with the two-term window test of the used-slot lookup
ConflictMatch_TwoTerms(b, st, s, e) ==
    /\ b.station_id = st
    /\ b.status \in Live
    /\ \/ Between(s, b.start_time, b.end_time)
       \/ Between(e, b.start_time, b.end_time)

\* the conflict count without its status filter
ConflictMatch_AnyStatus(b, st, s, e) ==
    /\ b.station_id = st
    /\ \/ Between(s, b.start_time, b.end_time)
       \/ Between(e, b.start_time, b.end_time)
       \/ Between(b.start_time, s, e)

\* WHERE clause of the conflict count
ConflictMatch(b, st, s, e) ==
    /\ b.station_id = st
    /\ b.status \in Live
    /\ \/ Between(s, b.start_time, b.end_time)
       \/ Between(e, b.start_time, b.end_time)
       \/ Between(b.start_time, s, e)

\* SELECT COUNT(*) ... of the conflict check
ConflictCount(st, s, e) ==
    Cardinality({i \in BookingIds : ConflictMatch(bookings[i], st, s, e)})

\* WHERE clause of the used-slot lookup
UsedSlotMatch(b, st, s, e) ==
    /\ b.station_id = st
    /\ b.status \in Live
    /\ \/ Between(s, b.start_time, b.end_time)
       \/ Between(e, b.start_time, b.end_time)

\* SELECT DISTINCT slot_number ... mapped to usedSlots
UsedSlots(st, s, e) ==
    {bookings[i].slot_number : i \in {j \in BookingIds : UsedSlotMatch(bookings[j], st, s, e)}}

\* the scan run downwards from total_slots
FirstFreeSlot_Last(used, total) ==
    IF \E i \in 1..total : i \notin used
    THEN CHOOSE i \in 1..total : i \notin used /\ \A j \in (i + 1)..total : j \in used
    ELSE Missing

\* the for loop over 1..total_slots; Missing when it falls through
FirstFreeSlot(used, total) ==
    IF \E i \in 1..total : i \notin used
    THEN CHOOSE i \in 1..total : i \notin used /\ \A j \in 1..(i - 1) : j \in used
    ELSE Missing

\* ----------------------------------------------------------------- Init
\* the state after start-up, with clients listening in the rooms rs
Start(rs) ==
    /\ stations \in {[id \in StationIds |-> [total_slots |-> n, pricing_per_hour |-> DefaultRate,
                                              status |-> "active"]] : n \in 1..MaxSlots}
    /\ bookings = <<>>
    /\ power_logs = <<>>
    /\ pc = [p \in Procs |-> "idle"]
    /\ req = [p \in Procs |-> NoReq]
    /\ tx = [p \in Procs |-> NoTx]
    /\ resp = [p \in Procs |-> 0]
    /\ now = 0
    /\ lcall = NoCall
    /\ lres = 0
    /\ rooms = rs
    /\ events = <<>>

Init == Start({})

\* ------------------------------------------------------ the notifications
\* the payload handed to io.to(`station_${stationId}`).emit
Event(type, stationId, id) == [type |-> type, stationId |-> stationId, id |-> id]

\* an emit that reaches the clients twice
Emit_Twice(e) ==
    IF e.stationId \in rooms
    THEN /\ Len(events) + 1 < MaxEvents
         /\ events' = Append(Append(events, e), e)
    ELSE UNCHANGED events

\* io.to(room).emit(...): the clients that joined the room receive the event
Emit(e) ==
    IF e.stationId \in rooms
    THEN /\ Len(events) < MaxEvents
         /\ events' = Append(events, e)
    ELSE UNCHANGED events

\* the emit of a handler, which may throw before anything is sent
EmitOrThrow(emitOk, e) == IF emitOk THEN Emit(e) ELSE UNCHANGED events

InFlight == {p \in Procs : pc[p] \notin {"idle", "done"}}

\* ------------------------------------------------- POST /bookings, by step
Finish(p, code) ==
    /\ pc' = [pc EXCEPT ![p] = "done"]
    /\ resp' = [resp EXCEPT ![p] = code]

\* handler entry: read the body, validate required fields, BEGIN; requests
\* are taken while the table and the requests in flight hold fewer than cap rows
CreateStartUpTo(p, sts, ws, sls, us, cap) ==
    /\ pc[p] = "idle"
    /\ Len(bookings) + Cardinality(InFlight) < cap
    /\ \E st \in sts, w \in ws, sl \in sls, u \in us :
          /\ req' = [req EXCEPT ![p] = [station_id |-> st, start_time |-> w[1], end_time |-> w[2],
                                        slot_number |-> sl, userId |-> u]]
          /\ IF st = Missing \/ w[1] = Missing \/ w[2] = Missing
             THEN Finish(p, 400)
             ELSE /\ pc' = [pc EXCEPT ![p] = "station"]
                  /\ resp' = resp
    /\ tx' = [tx EXCEPT ![p].begun = IF pc'[p] = "station" THEN 1 ELSE 0]
    /\ UNCHANGED <<stations, bookings, power_logs, lifeVars, events>>

\* handler entry, the table capped at MaxBookings rows
CreateStart(p, sts, ws, sls, us) == CreateStartUpTo(p, sts, ws, sls, us, MaxBookings)

\* a station lookup that did not look at the status
StationAvailable_AnyStatus(id) == id \in DOMAIN stations

\* ... FROM stations WHERE id = $1 AND status = 'active'
StationAvailable(id) == id \in DOMAIN stations /\ stations[id].status = "active"

\* SELECT total_slots, pricing_per_hour FROM stations WHERE id AND status = 'active'
ReadStation(p) ==
    /\ pc[p] = "station"
    /\ IF StationAvailable(req[p].station_id)
       THEN /\ tx' = [tx EXCEPT ![p].total_slots = stations[req[p].station_id].total_slots,
                                ![p].pricing_per_hour = stations[req[p].station_id].pricing_per_hour]
            /\ pc' = [pc EXCEPT ![p] = "count"]
            /\ resp' = resp
       ELSE /\ Finish(p, 404)
            /\ tx' = tx
    /\ UNCHANGED <<stations, bookings, power_logs, req, lifeVars, events>>

\* the capacity test off by one
NoCapacity_Strict(count, total) == count > total

\* parseInt(conflictResult.rows[0].count) >= total_slots
NoCapacity(count, total) == count >= total

\* the conflict count and the capacity test; a supplied slot_number is taken as is
CountConflicts(p) ==
    /\ pc[p] = "count"
    /\ LET count == ConflictCount(req[p].station_id, req[p].start_time, req[p].end_time) IN
       IF NoCapacity(count, tx[p].total_slots)
       THEN /\ Finish(p, 409)
            /\ tx' = [tx EXCEPT ![p].count = count]
       ELSE /\ resp' = resp
            /\ IF req[p].slot_number # Missing
               THEN /\ tx' = [tx EXCEPT ![p].count = count, ![p].assigned = req[p].slot_number]
                    /\ pc' = [pc EXCEPT ![p] = "insert"]
               ELSE /\ tx' = [tx EXCEPT ![p].count = count]
                    /\ pc' = [pc EXCEPT ![p] = "slots"]
    /\ UNCHANGED <<stations, bookings, power_logs, req, lifeVars, events>>

\* the used-slot lookup and the ascending scan
ReadUsedSlots(p) ==
    /\ pc[p] = "slots"
    /\ tx' = [tx EXCEPT ![p].assigned =
                FirstFreeSlot(UsedSlots(req[p].station_id, req[p].start_time, req[p].end_time),
                              tx[p].total_slots)]
    /\ pc' = [pc EXCEPT ![p] = "insert"]
    /\ UNCHANGED <<stations, bookings, power_logs, req, resp, lifeVars, events>>

\* <<pricing_per_hour in cents, half hours>> whose product, computed in IEEE-754
\* doubles, lies just below a half cent: 0.5 * 25.09 is 12.54499999999999992894572642398998141288757324218750
\* and 1.5 * 25.09 is 37.6349999999999980104803398717194795608520507812500
HalfCentBelow == {<<2509, 1>>, <<2509, 3>>}

\* (durationHours * pricing_per_hour).toFixed(2), in cents: the decimal nearest
\* to the double, the sign set aside first
ToFixed2(halfHours, rate) ==
    LET k    == IF halfHours < 0 THEN 0 - halfHours ELSE halfHours
        tie  == (k * rate) % 2 = 1
        mag  == IF tie /\ <<rate, k>> \notin HalfCentBelow
                THEN (k * rate) \div 2 + 1
                ELSE (k * rate) \div 2
    IN  IF halfHours < 0 THEN 0 - mag ELSE mag

\* totalCost of the handler
TotalCost(p) == ToFixed2(req[p].end_time - req[p].start_time, tx[p].pricing_per_hour)

\* the row of INSERT INTO bookings ... 'pending'; the columns the statement
\* does not name take their defaults
NewRow(p) ==
    [station_id |-> req[p].station_id, user_id |-> req[p].userId, slot_number |-> tx[p].assigned,
     start_time |-> req[p].start_time, end_time |-> req[p].end_time, total_cost |-> TotalCost(p),
     status |-> "pending", power_consumption |-> 0, updated_at |-> now]

\* an INSERT ... RETURNING * whose row is announced at once, before the COMMIT
InsertBooking_EmitEarly(p) ==
    /\ pc[p] = "insert"
    /\ pc' = [pc EXCEPT ![p] = "commit"]
    /\ resp' = resp
    /\ Emit(Event("new_booking", req[p].station_id, Len(bookings) + 1))
    /\ UNCHANGED <<stations, bookings, power_logs, req, tx, lifeVars>>

\* INSERT inside the open transaction: not yet visible to other statements.
\* With an undefined slot the driver sends NULL; the table definition is not
\* part of the sources, so the store either takes the row or refuses it, and a
\* refusal lands in the catch block (ROLLBACK, 500).
InsertBooking(p) ==
    /\ pc[p] = "insert"
    /\ \/ /\ pc' = [pc EXCEPT ![p] = "commit"]
          /\ resp' = resp
       \/ /\ tx[p].assigned = Missing
          /\ Finish(p, 500)
    /\ UNCHANGED <<stations, bookings, power_logs, req, tx, lifeVars, events>>

\* COMMIT: the row becomes visible
Commit(p) ==
    /\ pc[p] = "commit"
    /\ bookings' = Append(bookings, NewRow(p))
    /\ tx' = [tx EXCEPT ![p].booking_id = Len(bookings) + 1]
    /\ pc' = [pc EXCEPT ![p] = "emit"]
    /\ UNCHANGED <<stations, power_logs, req, resp, lifeVars, events>>

\* a throwing emit whose catch block, with its ROLLBACK, undid the committed row
EmitNewBooking_Undo(p) ==
    /\ pc[p] = "emit"
    /\ \/ /\ Finish(p, 201)
          /\ Emit(Event("new_booking", req[p].station_id, tx[p].booking_id))
          /\ bookings' = bookings
       \/ /\ Finish(p, 500)
          /\ bookings' = SubSeq(bookings, 1, Len(bookings) - 1)
          /\ UNCHANGED events
    /\ UNCHANGED <<stations, power_logs, req, tx, lifeVars>>

\* io.to(room).emit('bookingUpdate', new_booking), then 201; an emit that
\* throws lands in the catch block: ROLLBACK with no transaction open, then 500
EmitNewBooking(p) ==
    /\ pc[p] = "emit"
    /\ \/ /\ Emit(Event("new_booking", req[p].station_id, tx[p].booking_id))
          /\ Finish(p, 201)
       \/ /\ UNCHANGED events
          /\ Finish(p, 500)
    /\ UNCHANGED <<stations, bookings, power_logs, req, tx, lifeVars>>

\* the response is out and the connection released; the next request may come
Return(p) ==
    /\ pc[p] = "done"
    /\ pc' = [pc EXCEPT ![p] = "idle"]
    /\ req' = [req EXCEPT ![p] = NoReq]
    /\ tx' = [tx EXCEPT ![p] = NoTx]
    /\ resp' = [resp EXCEPT ![p] = 0]
    /\ UNCHANGED <<stations, bookings, power_logs, lifeVars, events>>

\* ------------------------------------------------------- lifecycle routes
\* PUT /bookings/:id/status
UpdateStatus(u, id, status) ==
    /\ IF status \notin {"active", "completed", "cancelled"}
       THEN UNCHANGED <<bookings, power_logs, events>>
       ELSE IF id \in BookingIds /\ bookings[id].user_id = u
       THEN /\ status = "active" => Len(power_logs) < MaxLogs
            /\ bookings' = [bookings EXCEPT ![id].status = status, ![id].updated_at = now]
            /\ power_logs' = IF status = "active"
                             THEN Append(power_logs, [station_id |-> bookings[id].station_id,
                                                      booking_id |-> id, power_kw |-> 0])
                             ELSE power_logs
            /\ Emit(Event("status_change", bookings[id].station_id, id))
       ELSE UNCHANGED <<bookings, power_logs, events>>
    /\ UNCHANGED <<createVars, lifeVars>>

\* PUT /admin/bookings/:id/status
AdminUpdateStatus(id, status) ==
    /\ IF status \in {"active", "completed", "cancelled"} /\ id \in BookingIds
       THEN /\ bookings' = [bookings EXCEPT ![id].status = status, ![id].updated_at = now]
            /\ Emit(Event("admin_status_change", bookings[id].station_id, id))
       ELSE UNCHANGED <<bookings, events>>
    /\ UNCHANGED <<power_logs, createVars, lifeVars>>

\* DELETE /bookings/:id
CancelBooking(u, id) ==
    /\ IF id \in BookingIds /\ bookings[id].user_id = u /\ bookings[id].status \in {"pending", "active"}
       THEN /\ bookings' = [bookings EXCEPT ![id].status = "cancelled", ![id].updated_at = now]
            /\ Emit(Event("cancellation", bookings[id].station_id, id))
       ELSE UNCHANGED <<bookings, events>>
    /\ UNCHANGED <<power_logs, createVars, lifeVars>>

\* ------------------------------------------------------------------ Next
CreateStep(p) ==
    \/ ReadStation(p)
    \/ CountConflicts(p)
    \/ ReadUsedSlots(p)
    \/ InsertBooking(p)
    \/ Commit(p)
    \/ EmitNewBooking(p)

Next ==
    \/ CreateStart(1, ReqStations \cup {Missing}, Windows, SlotInputs, Creators)
    \/ CreateStep(1)
    \/ Return(1)
    \/ \E u \in Users, id \in 1..MaxBookings, s \in StatusInputs : UpdateStatus(u, id, s)
    \/ \E id \in 1..MaxBookings, s \in StatusInputs : AdminUpdateStatus(id, s)
    \/ \E u \in Users, id \in 1..MaxBookings : CancelBooking(u, id)

Spec == Init /\ [][Next]_vars

\* ---------------------------------------------------------- the race test
\* total_slots + 1 requests for one window of one station, nothing else running
RaceWindows == {<<1, 2>>}

InitRace ==
    /\ Init
    /\ stations[1].total_slots = Cardinality(Procs) - 1

NextRace ==
    \E p \in Procs :
        \/ CreateStart(p, StationIds, RaceWindows, {Missing, 1}, Creators)
        \/ CreateStep(p)

RaceSpec == InitRace /\ [][NextRace]_vars

\* ------------------------------------------- the lifecycle routes, answered
\* One status or power request runs query by query (lcall); every other
\* request is a single statement followed by its emit and its response.
MaxLifeLogs == 2      \* power-log rows the store may hold while these routes run

LifeWindows == {<<1, 2>>}

\* the response after the emit: an emit that throws lands in the catch block
AfterEmit(emitOk, code) == IF emitOk THEN code ELSE 500

\* PUT /bookings/:id/status: the check of the body and the UPDATE; for a
\* status other than active the emit and the response follow at once
PutStatus(u, id, status, emitOk) ==
    /\ lcall = NoCall
    /\ IF status \notin {"active", "completed", "cancelled"}
       THEN /\ lres' = 400
            /\ UNCHANGED <<bookings, lcall, events>>
       ELSE IF ~(id \in BookingIds /\ bookings[id].user_id = u)
       THEN /\ lres' = 404
            /\ UNCHANGED <<bookings, lcall, events>>
       ELSE /\ status = "active" => Len(power_logs) < MaxLifeLogs
            /\ bookings' = [bookings EXCEPT ![id].status = status, ![id].updated_at = now]
            /\ IF status = "active"
               THEN /\ lcall' = [route |-> "status", id |-> id, power_kw |-> 0,
                                 station_id |-> bookings[id].station_id]
                    /\ lres' = 0
                    /\ UNCHANGED events
               ELSE /\ EmitOrThrow(emitOk, Event("status_change", bookings[id].station_id, id))
                    /\ lres' = AfterEmit(emitOk, 200)
                    /\ UNCHANGED lcall
    /\ UNCHANGED <<power_logs, now, createVars>>

\* PUT /bookings/:id/status with status active: the INSERT of the reading 0,
\* the emit and the response
PutStatusLog(emitOk) ==
    /\ lcall.route = "status"
    /\ power_logs' = Append(power_logs, [station_id |-> lcall.station_id,
                                         booking_id |-> lcall.id, power_kw |-> 0])
    /\ EmitOrThrow(emitOk, Event("status_change", lcall.station_id, lcall.id))
    /\ lres' = AfterEmit(emitOk, 200)
    /\ lcall' = NoCall
    /\ UNCHANGED <<bookings, now, createVars>>

\* a SELECT of the power route that did not look at the owner
PowerSelect_AnyUser(u, id) == id \in BookingIds /\ bookings[id].status = "active"

\* PUT /bookings/:id/power: SELECT ... WHERE id AND user_id AND status = 'active'
PowerSelect(u, id) ==
    id \in BookingIds /\ bookings[id].user_id = u /\ bookings[id].status = "active"

\* PUT /bookings/:id/power: the SELECT, and the 404 when it finds no row
PutPower(u, id, power_kw) ==
    /\ lcall = NoCall
    /\ IF PowerSelect(u, id)
       THEN /\ Len(power_logs) < MaxLifeLogs
            /\ lcall' = [route |-> "power", id |-> id, power_kw |-> power_kw,
                         station_id |-> bookings[id].station_id]
            /\ lres' = 0
       ELSE /\ lres' = 404
            /\ UNCHANGED lcall
    /\ UNCHANGED <<bookings, power_logs, now, createVars, events>>

\* an UPDATE of the power route that also writes the reading into total_cost
PutPowerUpdate_Recost ==
    /\ lcall.route = "power"
    /\ bookings' = [bookings EXCEPT ![lcall.id].power_consumption = lcall.power_kw,
                                    ![lcall.id].total_cost = lcall.power_kw,
                                    ![lcall.id].updated_at = now]
    /\ lcall' = [lcall EXCEPT !.route = "powerlog"]
    /\ UNCHANGED <<power_logs, now, lres, createVars, events>>

\* PUT /bookings/:id/power: UPDATE bookings SET power_consumption ... WHERE id
PutPowerUpdate ==
    /\ lcall.route = "power"
    /\ bookings' = [bookings EXCEPT ![lcall.id].power_consumption = lcall.power_kw,
                                    ![lcall.id].updated_at = now]
    /\ lcall' = [lcall EXCEPT !.route = "powerlog"]
    /\ UNCHANGED <<power_logs, now, lres, createVars, events>>

\* a power route that keeps one reading per booking: the latest replaces the last
PutPowerLog_Overwrite(emitOk) ==
    /\ lcall.route = "powerlog"
    /\ LET row == [station_id |-> lcall.station_id, booking_id |-> lcall.id,
                   power_kw |-> lcall.power_kw] IN
       power_logs' = IF power_logs = <<>>
                     THEN <<row>>
                     ELSE [power_logs EXCEPT ![Len(power_logs)] = row]
    /\ EmitOrThrow(emitOk, Event("powerUpdate", lcall.station_id, lcall.id))
    /\ lres' = AfterEmit(emitOk, 200)
    /\ lcall' = NoCall
    /\ UNCHANGED <<bookings, now, createVars>>

\* PUT /bookings/:id/power: the INSERT of the reading, the emit and the response
PutPowerLog(emitOk) ==
    /\ lcall.route = "powerlog"
    /\ power_logs' = Append(power_logs, [station_id |-> lcall.station_id,
                                         booking_id |-> lcall.id, power_kw |-> lcall.power_kw])
    /\ EmitOrThrow(emitOk, Event("powerUpdate", lcall.station_id, lcall.id))
    /\ lres' = AfterEmit(emitOk, 200)
    /\ lcall' = NoCall
    /\ UNCHANGED <<bookings, now, createVars>>

\* a DELETE route that announces the cancellation before looking at the result
DeleteBooking_EmitFirst(u, id, emitOk) ==
    /\ IF id \in BookingIds /\ bookings[id].user_id = u
       THEN /\ EmitOrThrow(emitOk, Event("cancellation", bookings[id].station_id, id))
            /\ IF bookings[id].status \in {"pending", "active"}
               THEN /\ bookings' = [bookings EXCEPT ![id].status = "cancelled", ![id].updated_at = now]
                    /\ lres' = AfterEmit(emitOk, 200)
               ELSE /\ bookings' = bookings
                    /\ lres' = AfterEmit(emitOk, 404)
       ELSE /\ lres' = 404
            /\ UNCHANGED <<bookings, events>>
    /\ UNCHANGED <<power_logs, now, lcall, createVars>>

\* a DELETE route whose UPDATE matches pending bookings only
DeleteBooking_PendingOnly(u, id, emitOk) ==
    /\ IF id \in BookingIds /\ bookings[id].user_id = u /\ bookings[id].status = "pending"
       THEN /\ bookings' = [bookings EXCEPT ![id].status = "cancelled", ![id].updated_at = now]
            /\ EmitOrThrow(emitOk, Event("cancellation", bookings[id].station_id, id))
            /\ lres' = AfterEmit(emitOk, 200)
       ELSE /\ lres' = 404
            /\ UNCHANGED <<bookings, events>>
    /\ UNCHANGED <<power_logs, now, lcall, createVars>>

\* a DELETE route that removes the row
DeleteBooking_RemoveRow(u, id, emitOk) ==
    /\ IF id \in BookingIds /\ bookings[id].user_id = u /\ bookings[id].status \in {"pending", "active"}
       THEN /\ bookings' = [i \in 1..(Len(bookings) - 1) |->
                                IF i < id THEN bookings[i] ELSE bookings[i + 1]]
            /\ EmitOrThrow(emitOk, Event("cancellation", bookings[id].station_id, id))
            /\ lres' = AfterEmit(emitOk, 200)
       ELSE /\ lres' = 404
            /\ UNCHANGED <<bookings, events>>
    /\ UNCHANGED <<power_logs, now, lcall, createVars>>

\* an UPDATE without the filter on status, the status tested on the row it returns
DeleteBooking_NoStatusFilter(u, id, emitOk) ==
    /\ IF id \in BookingIds /\ bookings[id].user_id = u
       THEN /\ bookings' = [bookings EXCEPT ![id].status = "cancelled", ![id].updated_at = now]
            /\ lres' = IF bookings[id].status \in {"pending", "active"}
                       THEN AfterEmit(emitOk, 200) ELSE 404
            /\ IF bookings[id].status \in {"pending", "active"}
               THEN EmitOrThrow(emitOk, Event("cancellation", bookings[id].station_id, id))
               ELSE UNCHANGED events
       ELSE /\ lres' = 404
            /\ UNCHANGED <<bookings, events>>
    /\ UNCHANGED <<power_logs, now, lcall, createVars>>

\* DELETE /bookings/:id: the UPDATE, the emit and the response
DeleteBooking(u, id, emitOk) ==
    /\ IF id \in BookingIds /\ bookings[id].user_id = u /\ bookings[id].status \in {"pending", "active"}
       THEN /\ bookings' = [bookings EXCEPT ![id].status = "cancelled", ![id].updated_at = now]
            /\ EmitOrThrow(emitOk, Event("cancellation", bookings[id].station_id, id))
            /\ lres' = AfterEmit(emitOk, 200)
       ELSE /\ lres' = 404
            /\ UNCHANGED <<bookings, events>>
    /\ UNCHANGED <<power_logs, now, lcall, createVars>>

\* an admin override that writes whatever status the body holds
AdminPutStatus_AnyStatus(id, status, emitOk) ==
    /\ IF id \notin BookingIds
       THEN /\ lres' = 404
            /\ UNCHANGED <<bookings, events>>
       ELSE /\ bookings' = [bookings EXCEPT ![id].status = status, ![id].updated_at = now]
            /\ EmitOrThrow(emitOk, Event("admin_status_change", bookings[id].station_id, id))
            /\ lres' = AfterEmit(emitOk, 200)
    /\ UNCHANGED <<power_logs, now, lcall, createVars>>

\* PUT /admin/bookings/:id/status: the check of the body, the UPDATE, the emit
\* and the response
AdminPutStatus(id, status, emitOk) ==
    /\ IF status \notin {"active", "completed", "cancelled"}
       THEN /\ lres' = 400
            /\ UNCHANGED <<bookings, events>>
       ELSE IF id \notin BookingIds
       THEN /\ lres' = 404
            /\ UNCHANGED <<bookings, events>>
       ELSE /\ bookings' = [bookings EXCEPT ![id].status = status, ![id].updated_at = now]
            /\ EmitOrThrow(emitOk, Event("admin_status_change", bookings[id].station_id, id))
            /\ lres' = AfterEmit(emitOk, 200)
    /\ UNCHANGED <<power_logs, now, lcall, createVars>>

\* time passes between two statements
Tick ==
    /\ now < MaxClock
    /\ now' = now + 1
    /\ UNCHANGED <<bookings, power_logs, lcall, lres, createVars, events>>

NextLife ==
    \/ CreateStart(1, ReqStations \cup {Missing}, LifeWindows, {Missing}, Creators)
    \/ CreateStep(1)
    \/ Return(1)
    \/ \E u \in Users, id \in 1..MaxBookings, s \in StatusInputs, ok \in BOOLEAN : PutStatus(u, id, s, ok)
    \/ \E ok \in BOOLEAN : PutStatusLog(ok)
    \/ \E u \in Users, id \in 1..MaxBookings, kw \in PowerInputs : PutPower(u, id, kw)
    \/ PutPowerUpdate
    \/ \E ok \in BOOLEAN : PutPowerLog(ok)
    \/ \E u \in Users, id \in 1..MaxBookings, ok \in BOOLEAN : DeleteBooking(u, id, ok)
    \/ \E id \in 1..MaxBookings, s \in StatusInputs, ok \in BOOLEAN : AdminPutStatus(id, s, ok)
    \/ Tick

\* a station with one slot, so that a second request for the window of a
\* live booking finds no capacity
InitLife ==
    /\ Init
    /\ stations[1].total_slots = 1

LifeSpec == InitLife /\ [][NextLife]_vars

\* ------------------------------------------------- the cost of a booking
\* pricing_per_hour values an admin sets, in cents
Rates == {DefaultRate, 2509}

\* a column of UPDATE stations SET c = COALESCE($n, c)
Coalesce(v, old) == IF v = Missing THEN old ELSE v

\* a status field absent from the body, sent to the store as NULL
NoStatus == "null"

\* PUT /admin/stations/:id, the columns the booking routes read
UpdateStation(id, total_slots, pricing_per_hour, status) ==
    /\ IF id \in DOMAIN stations
       THEN stations' = [stations EXCEPT
                ![id].total_slots = Coalesce(total_slots, @),
                ![id].pricing_per_hour = Coalesce(pricing_per_hour, @),
                ![id].status = IF status = NoStatus THEN @ ELSE status]
       ELSE UNCHANGED stations
    /\ UNCHANGED <<bookings, power_logs, pc, req, tx, resp, lifeVars, events>>

\* windows of one to three half hours, and windows that end where they start
CostWindows == {w \in Times \X Times : w[1] = 1}

InitCost ==
    /\ Init
    /\ stations[1].total_slots = MaxSlots

NextCost ==
    \/ CreateStart(1, StationIds, CostWindows, {Missing}, Creators)
    \/ CreateStep(1)
    \/ Return(1)
    \/ \E id \in ReqStations, r \in Rates : UpdateStation(id, Missing, r, NoStatus)

CostSpec == InitCost /\ [][NextCost]_vars

\* --------------------------------------------------- the admin's stations
StationStatusInputs == {NoStatus, "active", "inactive"}

\* SELECT COUNT(*) FROM bookings WHERE station_id = $1 AND status = 'active'
ActiveCount(st) ==
    Cardinality({i \in BookingIds : bookings[i].station_id = st /\ bookings[i].status = "active"})

\* DELETE /admin/stations/:id: the count of active bookings and the 400
DeleteStationCount(id) ==
    /\ lcall = NoCall
    /\ IF ActiveCount(id) > 0
       THEN /\ lres' = 400
            /\ UNCHANGED lcall
       ELSE /\ lres' = 0
            /\ lcall' = [route |-> "stationdelete", id |-> Missing, power_kw |-> 0,
                         station_id |-> id]
    /\ UNCHANGED <<bookings, power_logs, now, createVars, events>>

\* DELETE /admin/stations/:id: DELETE FROM stations WHERE id = $1 and the
\* response. Whether the bookings table refers to stations with a constraint is
\* not part of the sources: with rows that name the station the store either
\* deletes the station or refuses, and a refusal lands in the catch block (500).
DeleteStationRow ==
    /\ lcall.route = "stationdelete"
    /\ IF lcall.station_id \in DOMAIN stations
       THEN \/ /\ stations' = [i \in DOMAIN stations \ {lcall.station_id} |-> stations[i]]
               /\ lres' = 200
            \/ /\ \E i \in BookingIds : bookings[i].station_id = lcall.station_id
               /\ lres' = 500
               /\ UNCHANGED stations
       ELSE /\ lres' = 404
            /\ UNCHANGED stations
    /\ lcall' = NoCall
    /\ UNCHANGED <<bookings, power_logs, pc, req, tx, resp, now, rooms, events>>

\* a station with MaxSlots slots, open for bookings
InitStation ==
    /\ Init
    /\ stations[1].total_slots = MaxSlots

NextStation ==
    \/ CreateStart(1, StationIds, LifeWindows, {Missing}, Creators)
    \/ CreateStep(1)
    \/ Return(1)
    \/ \E id \in 1..MaxBookings, s \in {"active", "completed"} : UpdateStatus("u1", id, s)
    \/ \E id \in 1..MaxBookings, s \in {"active", "completed"} : AdminPutStatus(id, s, TRUE)
    \/ \E id \in ReqStations, n \in {Missing} \cup (1..MaxSlots), s \in StationStatusInputs :
          UpdateStation(id, n, Missing, s)
    \/ \E id \in ReqStations : DeleteStationCount(id)
    \/ DeleteStationRow

StationSpec == InitStation /\ [][NextStation]_vars

\* ------------------------------------------- the routes with a listener
\* a client has joined the room of every station
InitNotify ==
    /\ Start(StationIds)
    /\ stations[1].total_slots = 1

NextNotify ==
    \/ CreateStart(1, StationIds, LifeWindows, {Missing}, Creators)
    \/ CreateStep(1)
    \/ Return(1)
    \/ \E id \in 1..MaxBookings, s \in {"active", "completed"}, ok \in BOOLEAN :
          PutStatus("u1", id, s, ok)
    \/ \E ok \in BOOLEAN : PutStatusLog(ok)
    \/ \E id \in 1..MaxBookings : PutPower("u1", id, 1)
    \/ PutPowerUpdate
    \/ \E ok \in BOOLEAN : PutPowerLog(ok)
    \/ \E id \in 1..MaxBookings, ok \in BOOLEAN : DeleteBooking("u1", id, ok)
    \/ \E id \in 1..MaxBookings, s \in {"active", "cancelled"}, ok \in BOOLEAN :
          AdminPutStatus(id, s, ok)

NotifySpec == InitNotify /\ [][NextNotify]_vars

\* ------------------------------------------ a statement the store refuses
\* a client.query of the transaction rejects (a serialization failure, a
\* deadlock, a lost connection): the catch block sends ROLLBACK and answers
\* 500; the handler has no loop around the transaction
QueryFails(p) ==
    /\ pc[p] \in {"station", "count", "slots", "insert", "commit"}
    /\ Finish(p, 500)
    /\ UNCHANGED <<stations, bookings, power_logs, req, tx, lifeVars, events>>

InitRetry ==
    /\ Init
    /\ stations[1].total_slots = MaxSlots

NextRetry ==
    \/ CreateStart(1, ReqStations \cup {Missing}, LifeWindows, {Missing}, Creators)
    \/ CreateStep(1)
    \/ QueryFails(1)
    \/ Return(1)
    \/ \E u \in Users, id \in 1..MaxBookings, s \in StatusInputs : UpdateStatus(u, id, s)

RetrySpec == InitRetry /\ [][NextRetry]_vars

\* ------------------------------------------- a request on a filled station
\* two windows apart from each other and one that spans both
CapWindows == {<<1, 2>>, <<3, 4>>, <<1, 4>>}

InitCapacity ==
    /\ Init
    /\ stations[1].total_slots = MaxSlots

\* one more request than the station has slots
NextCapacity ==
    \/ CreateStartUpTo(1, StationIds, CapWindows, {Missing}, Creators, MaxSlots + 1)
    \/ CreateStep(1)
    \/ Return(1)
    \/ \E id \in 1..MaxSlots : CancelBooking("u1", id)

CapacitySpec == InitCapacity /\ [][NextCapacity]_vars

\* ------------------------------------------- power updates side by side
\* PUT /bookings/:id/power as a request of its own, so that two of them can
\* run at once: pc[p] is the statement request p is about to send
PowerInFlight == {p \in Procs : pc[p] \in {"pupdate", "plog"}}

\* the SELECT, and the 404 when it finds no row
PowerStart(p, u, id, power_kw) ==
    /\ pc[p] = "idle"
    /\ IF PowerSelect(u, id)
       THEN /\ Len(power_logs) + Cardinality(PowerInFlight) < MaxLifeLogs
            /\ req' = [req EXCEPT ![p] = [id |-> id, power_kw |-> power_kw, userId |-> u,
                                          station_id |-> bookings[id].station_id]]
            /\ pc' = [pc EXCEPT ![p] = "pupdate"]
            /\ resp' = resp
       ELSE /\ Finish(p, 404)
            /\ req' = req
    /\ UNCHANGED <<stations, bookings, power_logs, tx, lifeVars, events>>

\* UPDATE bookings SET power_consumption = $1, updated_at = NOW() WHERE id = $2
PowerUpdate(p) ==
    /\ pc[p] = "pupdate"
    /\ bookings' = [bookings EXCEPT ![req[p].id].power_consumption = req[p].power_kw,
                                    ![req[p].id].updated_at = now]
    /\ pc' = [pc EXCEPT ![p] = "plog"]
    /\ UNCHANGED <<stations, power_logs, req, tx, resp, lifeVars, events>>

\* INSERT INTO power_logs, the emit and the response
PowerLog(p) ==
    /\ pc[p] = "plog"
    /\ power_logs' = Append(power_logs, [station_id |-> req[p].station_id,
                                         booking_id |-> req[p].id, power_kw |-> req[p].power_kw])
    /\ \E emitOk \in BOOLEAN :
          /\ EmitOrThrow(emitOk, Event("powerUpdate", req[p].station_id, req[p].id))
          /\ Finish(p, AfterEmit(emitOk, 200))
    /\ UNCHANGED <<stations, bookings, req, tx, lifeVars>>

InitPowerRace ==
    /\ Init
    /\ stations[1].total_slots = 1

NextPowerRace ==
    \/ \E p \in Procs :
          \/ CreateStart(p, StationIds, LifeWindows, {Missing}, Creators)
          \/ CreateStep(p)
          \/ Return(p)
          \/ \E id \in 1..MaxBookings, kw \in PowerInputs : PowerStart(p, "u1", id, kw)
          \/ PowerUpdate(p)
          \/ PowerLog(p)
    \/ \E id \in 1..MaxBookings, s \in {"active", "completed"} : AdminPutStatus(id, s, TRUE)

PowerRaceSpec == InitPowerRace /\ [][NextPowerRace]_vars

\* =================================================================== claims
\* half-open windows [s1,e1) and [s2,e2) share an instant
Overlap(s1, e1, s2, e2) == s1 < e2 /\ s2 < e1

\* live bookings of station st
LiveOn(st) == {i \in BookingIds : bookings[i].station_id = st /\ bookings[i].status \in Live}

\* live bookings of the station of request p whose window overlaps the requested one
Overlapping(p) ==
    {i \in LiveOn(req[p].station_id) :
        Overlap(req[p].start_time, req[p].end_time, bookings[i].start_time, bookings[i].end_time)}

\* C1: for every station and instant, the pending/active bookings whose window
\* contains the instant number at most total_slots.
C1_CapacityNeverExceeded ==
    \A st \in DOMAIN stations, t \in Times :
        Cardinality({i \in LiveOn(st) : bookings[i].start_time <= t /\ t < bookings[i].end_time})
            <= stations[st].total_slots

\* C2: total_slots + 1 concurrent requests for one window of an empty station:
\* once all have answered, exactly total_slots got 201 and the other one 409.
C2_ExactlyNAdmitted ==
    (/\ \A p \in Procs : pc[p] = "done"
     /\ \A p, q \in Procs : /\ req[p].station_id = req[q].station_id
                            /\ req[p].start_time = req[q].start_time
                            /\ req[p].end_time = req[q].end_time)
    => /\ Cardinality({p \in Procs : resp[p] = 201}) = stations[1].total_slots
       /\ \A p \in Procs : resp[p] \in {201, 409}

\* C3: no two pending/active bookings of one station hold the same slot number
\* with windows that share an instant.
C3_SlotHeldOnce ==
    \A i, j \in BookingIds :
        (/\ i # j
         /\ bookings[i].station_id = bookings[j].station_id
         /\ bookings[i].status \in Live /\ bookings[j].status \in Live
         /\ bookings[i].slot_number # Missing
         /\ bookings[i].slot_number = bookings[j].slot_number)
        => ~ \E t \in Times : /\ bookings[i].start_time <= t /\ t < bookings[i].end_time
                              /\ bookings[j].start_time <= t /\ t < bookings[j].end_time

\* the only live booking of the requested station touches the requested window
\* at a boundary and shares no instant with it
TouchOnly(p) ==
    /\ req[p].start_time < req[p].end_time
    /\ Cardinality(LiveOn(req[p].station_id)) = 1
    /\ \A i \in LiveOn(req[p].station_id) :
          /\ bookings[i].start_time < bookings[i].end_time
          /\ \/ bookings[i].end_time = req[p].start_time
             \/ bookings[i].start_time = req[p].end_time

\* C4: a request whose window only touches the window of the station's single
\* live booking is not turned away by the conflict check.
C4_BoundaryTouchAdmitted ==
    [][\A p \in Procs : (CountConflicts(p) /\ TouchOnly(p)) => resp'[p] # 409]_vars

\* C5: the conflict check counts every pending/active booking of the station
\* whose window overlaps the requested window [s,e), s < e.
C5_OverlapIsCounted ==
    [][\A p \in Procs :
          (CountConflicts(p) /\ req[p].start_time < req[p].end_time)
          => tx'[p].count >= Cardinality(Overlapping(p))]_vars

\* C5 witness: a request was turned away on account of a live booking whose
\* window lies strictly inside the requested one.
C5_Witness ==
    \E p \in Procs :
        /\ pc[p] = "done" /\ resp[p] = 409 /\ tx[p].count >= 1
        /\ \E i \in LiveOn(req[p].station_id) :
              /\ req[p].start_time < bookings[i].start_time
              /\ bookings[i].start_time < bookings[i].end_time
              /\ bookings[i].end_time < req[p].end_time

\* slot numbers held by live bookings of the station of request p, any window
LiveSlots(p) == {bookings[i].slot_number : i \in LiveOn(req[p].station_id)}

\* C6: cancelled and completed bookings take no capacity and block no slot: a
\* request is turned away for capacity only if total_slots live bookings exist
\* on the station, and the scan skips a slot only if a live booking holds it.
C6_OnlyLiveBookingsCount ==
    [][\A p \in Procs :
          /\ (CountConflicts(p) /\ resp'[p] = 409)
                => Cardinality(LiveOn(req[p].station_id)) >= tx[p].total_slots
          /\ ReadUsedSlots(p)
                => \A j \in 1..tx[p].total_slots :
                      (tx'[p].assigned = Missing \/ j < tx'[p].assigned) => j \in LiveSlots(p)]_vars

\* C6 witness: on a station with one slot a request for the window of a
\* cancelled booking was admitted.
C6_Witness ==
    \E p \in Procs :
        /\ pc[p] = "done" /\ resp[p] = 201 /\ tx[p].total_slots = 1
        /\ req[p].start_time < req[p].end_time
        /\ \E i, j \in BookingIds :
              /\ bookings[i].status = "cancelled"
              /\ bookings[j].status = "pending"
              /\ \A k \in {i, j} : /\ bookings[k].station_id = req[p].station_id
                                   /\ bookings[k].start_time = req[p].start_time
                                   /\ bookings[k].end_time = req[p].end_time

\* slot numbers held by live bookings overlapping the window of request p
HeldSlots(p) == {bookings[i].slot_number : i \in Overlapping(p)}

\* the requested window and the windows of the station's live bookings have
\* end > start, and none of them merely touches the requested window
ProperWindows(p) ==
    /\ req[p].start_time < req[p].end_time
    /\ \A i \in LiveOn(req[p].station_id) :
          /\ bookings[i].start_time < bookings[i].end_time
          /\ bookings[i].end_time # req[p].start_time
          /\ bookings[i].start_time # req[p].end_time

\* C7: without a slot number the assigned slot is the smallest of 1..total_slots
\* that no overlapping pending/active booking of the station holds (stated for
\* windows with end > start that do not merely touch).
C7_SmallestFreeSlot ==
    [][\A p \in Procs :
          (/\ ReadUsedSlots(p)
           /\ ProperWindows(p)
           /\ \E j \in 1..tx[p].total_slots : j \notin HeldSlots(p))
          => /\ tx'[p].assigned \in 1..tx[p].total_slots
             /\ tx'[p].assigned \notin HeldSlots(p)
             /\ \A j \in 1..(tx'[p].assigned - 1) : j \in HeldSlots(p)]_vars

\* C8: a booking with a caller-supplied slot number is committed only if the
\* number lies in 1..total_slots and no overlapping pending/active booking of
\* the station holds it.
C8_SuppliedSlotValidated ==
    [][\A p \in Procs :
          (Commit(p) /\ req[p].slot_number # Missing /\ req[p].start_time < req[p].end_time)
          => /\ req[p].slot_number \in 1..tx[p].total_slots
             /\ req[p].slot_number \notin HeldSlots(p)]_vars

\* every slot of 1..total_slots is held by a live booking overlapping request p
AllSlotsHeld(p) == \A j \in 1..tx[p].total_slots : j \in HeldSlots(p)

\* C9: a request without a slot number that meets a station whose slots
\* 1..total_slots are all held by overlapping pending/active bookings is turned
\* away with 409 and inserts nothing.
C9_AllSlotsHeldRejected ==
    [][\A p \in Procs :
          (CountConflicts(p) /\ req[p].slot_number = Missing /\ AllSlotsHeld(p))
          => /\ pc'[p] = "done" /\ resp'[p] = 409
             /\ bookings' = bookings]_vars

\* C9 witness: a slotless request was turned away while every slot was held.
C9_Witness ==
    \E p \in Procs :
        /\ pc[p] = "done" /\ resp[p] = 409
        /\ req[p].slot_number = Missing
        /\ tx[p].total_slots >= 1
        /\ AllSlotsHeld(p)

\* edges of the lifecycle state machine
AllowedEdges ==
    {<<"pending", "active">>, <<"pending", "cancelled">>,
     <<"active", "completed">>, <<"active", "cancelled">>}

\* C10: a booking's status changes only along the allowed edges.
C10_OnlyAllowedEdges ==
    [][\A i \in BookingIds :
          bookings'[i].status # bookings[i].status
          => <<bookings[i].status, bookings'[i].status>> \in AllowedEdges]_vars

\* the seed reading of a booking: a power-log row with reading 0 for the
\* booking and its station
SeedLog(i) == [station_id |-> bookings[i].station_id, booking_id |-> i, power_kw |-> 0]

\* C11: every step that takes a booking from another status into active, by
\* the user status route or by the admin override, appends exactly one
\* power-log row with reading 0 for that booking and its station.
C11_ActivationSeedsLog ==
    [][\A i \in BookingIds :
          (bookings[i].status # "active" /\ bookings'[i].status = "active")
          => power_logs' = Append(power_logs, SeedLog(i))]_vars

\* C19: a request whose end_time is not after its start_time inserts nothing,
\* so every stored booking has end_time > start_time and total_cost >= 0.
C19_StoredWindowsProper ==
    \A i \in BookingIds :
        /\ bookings[i].end_time > bookings[i].start_time
        /\ bookings[i].total_cost >= 0

\* the responses of a request that was turned down
Rejections == {400, 403, 404, 409}

\* C12: cancelling a booking that is already cancelled, or one that is
\* completed, by DELETE /bookings/:id or by a status update to cancelled,
\* fails and leaves the booking row as it was, updated_at included.
C12_CancelOfClosedBookingRejected ==
    [][\A u \in Users, id \in BookingIds, ok \in BOOLEAN :
          ( /\ bookings[id].status \in {"cancelled", "completed"}
            /\ DeleteBooking(u, id, ok) \/ PutStatus(u, id, "cancelled", ok) )
          => /\ lres' \in Rejections
             /\ bookings'[id] = bookings[id]]_vars

\* C13: a request to the user status, power or cancel route whose caller is
\* not the booking's user fails and leaves the booking rows and the power
\* logs as they were.
C13_NonOwnerChangesNothing ==
    [][\A u \in Users, id \in BookingIds :
          ( /\ bookings[id].user_id # u
            /\ \/ \E s \in StatusInputs, ok \in BOOLEAN : PutStatus(u, id, s, ok)
               \/ \E kw \in PowerInputs : PutPower(u, id, kw)
               \/ \E ok \in BOOLEAN : DeleteBooking(u, id, ok) )
          => /\ lres' \in Rejections
             /\ lcall' = lcall
             /\ bookings' = bookings
             /\ power_logs' = power_logs]_vars

\* the last answer is a 404 while every booking id names an active booking of
\* u1: an activation would have replaced the answer, and the owner is never
\* answered 404 on an active booking, so the request came from another caller
C13_Witness ==
    /\ lres = 404
    /\ Len(bookings) = MaxBookings
    /\ \A id \in BookingIds : bookings[id].status = "active" /\ bookings[id].user_id = "u1"

\* C14: the power route writes power_consumption and appends its reading only
\* at a moment when the booking's status is active, whatever status change
\* runs between its statements.
C14_PowerWrittenOnlyWhileActive ==
    [][(PutPowerUpdate \/ \E ok \in BOOLEAN : PutPowerLog(ok))
          => bookings[lcall.id].status = "active"]_vars

\* C15: whenever a create request is answered with an error (anything but
\* 201), no booking row of that request exists in the store.
C15_ErrorMeansNoRow ==
    \A p \in Procs :
        (pc[p] = "done" /\ resp[p] # 201 /\ req[p].start_time < req[p].end_time)
        => tx[p].booking_id \notin BookingIds

\* the booking row of request p is the row the request committed
RowOfRequest(p) ==
    /\ tx[p].booking_id \in BookingIds
    /\ bookings[tx[p].booking_id].station_id = req[p].station_id
    /\ bookings[tx[p].booking_id].user_id = req[p].userId
    /\ bookings[tx[p].booking_id].start_time = req[p].start_time
    /\ bookings[tx[p].booking_id].end_time = req[p].end_time
    /\ bookings[tx[p].booking_id].slot_number = tx[p].assigned

\* C16: when the emit of new_booking fails after COMMIT, the committed
\* booking stays in the store.
C16_EmitFailureKeepsBooking ==
    \A p \in Procs :
        (pc[p] = "done" /\ resp[p] = 500 /\ tx[p].booking_id # Missing) => RowOfRequest(p)

\* a request whose COMMIT went through was answered 500 and its row is there
C16_Witness ==
    \E p \in Procs :
        /\ pc[p] = "done" /\ resp[p] = 500
        /\ tx[p].booking_id # Missing
        /\ RowOfRequest(p)

\* C17: a failed emit never changes the response: a create request whose
\* COMMIT went through is answered 201, and a status, power or cancel request
\* whose statements went through is answered 200.
C17_EmitFailureKeepsResponse ==
    [][/\ \A p \in Procs : EmitNewBooking(p) => resp'[p] = 201
       /\ ( \/ \E u \in Users, id \in BookingIds, s \in StatusInputs : PutStatus(u, id, s, FALSE)
            \/ PutStatusLog(FALSE)
            \/ PutPowerLog(FALSE)
            \/ \E u \in Users, id \in BookingIds : DeleteBooking(u, id, FALSE) )
          => lres' # 500]_vars

\* the three tables
store == <<stations, bookings, power_logs>>

\* C18: a request that is turned down (missing fields, station unavailable,
\* no capacity, invalid status value, booking not found or not owned, not
\* cancellable) leaves stations, bookings and power_logs as they were: no
\* step of a create request up to its capacity test writes, the step that
\* turns a create request down writes nothing, and neither does a status,
\* power or cancel request that is turned down.
C18_RejectionChangesNothing ==
    [][/\ (\E p \in Procs : pc[p] \in {"idle", "station", "count"} /\ pc'[p] # pc[p])
          => UNCHANGED store
       /\ (\E p \in Procs : resp[p] = 0 /\ resp'[p] \in Rejections) => UNCHANGED store
       /\ \/ lres' \notin Rejections
          \/ UNCHANGED store
          \/ ~ \/ \E u \in Users, id \in 1..MaxBookings, s \in StatusInputs, ok \in BOOLEAN :
                     PutStatus(u, id, s, ok)
               \/ \E u \in Users, id \in 1..MaxBookings, kw \in PowerInputs : PutPower(u, id, kw)
               \/ \E u \in Users, id \in 1..MaxBookings, ok \in BOOLEAN : DeleteBooking(u, id, ok)
               \/ \E id \in 1..MaxBookings, s \in StatusInputs, ok \in BOOLEAN :
                     AdminPutStatus(id, s, ok)]_vars

\* a create request was turned down for lack of capacity and the last status,
\* power or cancel request was turned down too, with a booking in the store
C18_Witness ==
    /\ \E p \in Procs : pc[p] = "done" /\ resp[p] = 409
    /\ lres \in {400, 404}
    /\ bookings # <<>>

\* half hours times cents per hour, to the nearest cent, a half cent going up
RoundHalfUp(halfHours, rate) == (halfHours * rate + 1) \div 2

\* the same with a half cent going to the even cent
RoundHalfEven(halfHours, rate) ==
    LET q == (halfHours * rate) \div 2
    IN  IF (halfHours * rate) % 2 = 1 /\ q % 2 = 1 THEN q + 1 ELSE q

\* C20: the total_cost stored for a created booking is the duration of its
\* window in hours times the pricing_per_hour read in its transaction,
\* rounded to 2 decimal places.
C20_CostIsRoundedProduct ==
    \A p \in Procs :
        (tx[p].booking_id \in BookingIds /\ req[p].start_time < req[p].end_time)
        => bookings[tx[p].booking_id].total_cost
               \in {RoundHalfUp(req[p].end_time - req[p].start_time, tx[p].pricing_per_hour),
                    RoundHalfEven(req[p].end_time - req[p].start_time, tx[p].pricing_per_hour)}

\* C21: a create request whose station is missing, or not active, when the
\* transaction reads it is answered 404 and inserts nothing; no later step of
\* that request runs.
C21_UnavailableStationRejected ==
    [][\A p \in Procs :
          (ReadStation(p) /\ ~ ( /\ req[p].station_id \in DOMAIN stations
                                 /\ stations[req[p].station_id].status = "active" ))
          => /\ pc'[p] = "done"
             /\ resp'[p] = 404
             /\ UNCHANGED store]_vars

\* a request for a station that exists but is not active was answered 404
C21_Witness ==
    \E p \in Procs :
        /\ pc[p] = "done" /\ resp[p] = 404
        /\ req[p].station_id \in DOMAIN stations
        /\ stations[req[p].station_id].status = "inactive"
        /\ tx[p].booking_id = Missing

\* C22: DELETE /bookings/:id by the booking's user sets the status to
\* cancelled exactly when the status is pending or active, and touches no
\* other row; for a completed or cancelled booking it answers 404 and changes
\* nothing.
C22_CancelExactlyWhenLive ==
    [][\A u \in Users, id \in BookingIds :
          ( /\ bookings[id].user_id = u
            /\ \E ok \in BOOLEAN : DeleteBooking(u, id, ok) )
          => IF bookings[id].status \in {"pending", "active"}
             THEN /\ bookings'[id].status = "cancelled"
                  /\ lres' # 404
                  /\ \A j \in BookingIds \ {id} : bookings'[j] = bookings[j]
             ELSE /\ lres' = 404
                  /\ bookings' = bookings]_vars

\* the state a DELETE of a closed booking ends in: the last answer is 404,
\* every booking id names a completed or cancelled booking, one is cancelled
C22_Witness ==
    /\ lres = 404
    /\ Len(bookings) = MaxBookings
    /\ \A id \in BookingIds : bookings[id].status \in {"completed", "cancelled"}
    /\ \E id \in BookingIds : bookings[id].status = "cancelled"

\* the step delivers exactly one event, about booking id and addressed to the
\* room of that booking's station
DeliversOne(id) ==
    /\ Len(events') = Len(events) + 1
    /\ SubSeq(events', 1, Len(events)) = events
    /\ events'[Len(events')].id = id
    /\ id \in 1..Len(bookings')
    /\ events'[Len(events')].stationId = bookings'[id].station_id

\* the step that ends a state-changing call whose statements went through
EndsChangingCall(id) ==
    \/ \E p \in Procs : EmitNewBooking(p) /\ tx[p].booking_id = id
    \/ (\E ok \in BOOLEAN : PutStatusLog(ok) \/ PutPowerLog(ok)) /\ lcall.id = id
    \/ /\ id \in BookingIds
       /\ lcall' = lcall
       /\ pc' = pc
       /\ lres' \in {200, 500}
       /\ \/ \E u \in Users, s \in StatusInputs, ok \in BOOLEAN : PutStatus(u, id, s, ok)
          \/ \E u \in Users, ok \in BOOLEAN : DeleteBooking(u, id, ok)
          \/ \E s \in StatusInputs, ok \in BOOLEAN : AdminPutStatus(id, s, ok)

\* C23 as stated: every state-changing call whose change is committed (create,
\* user status update, admin override, power update, cancel) is followed by
\* exactly one event, addressed to the station of the booking.
C23_EveryChangeNotifiedOnce ==
    [][\A id \in 1..MaxBookings : EndsChangingCall(id) => DeliversOne(id)]_vars

\* the step answers a state-changing call with its success response
AnswersSuccess ==
    \/ \E p \in Procs : pc[p] = "emit" /\ resp'[p] = 201
    \/ /\ lres' = 200
       /\ \/ PutStatusLog(TRUE)
          \/ PutPowerLog(TRUE)
          \/ \E u \in Users, id \in BookingIds, s \in StatusInputs : PutStatus(u, id, s, TRUE)
          \/ \E u \in Users, id \in BookingIds : DeleteBooking(u, id, TRUE)
          \/ \E id \in BookingIds, s \in StatusInputs : AdminPutStatus(id, s, TRUE)

\* C23, amended: a step delivers an event only as the end of a state-changing
\* call, and then exactly one, addressed to the station of the booking; every
\* call answered with success has delivered its event; a call whose emit
\* throws is answered 500 and delivers none although its change is committed.
C23_SuccessNotifiedOnce ==
    [][/\ events' # events
          => \E id \in 1..MaxBookings : EndsChangingCall(id) /\ DeliversOne(id)
       /\ events' = events => ~AnswersSuccess]_vars

\* one call was answered with success and delivered its event, and a later
\* change of that booking's status was answered 500 and delivered none
C23_Witness ==
    /\ Len(events) = 1
    /\ events[1].type = "new_booking"
    /\ lres = 500
    /\ events[1].id \in BookingIds
    /\ bookings[events[1].id].status # "pending"

\* C27: a new_booking event is delivered only for a booking whose transaction
\* has committed: every delivered new_booking event names a committed row of
\* the station it is addressed to, and it is delivered by the step that
\* follows the COMMIT of that row.
C27_NewBookingAfterCommit ==
    /\ \A k \in 1..Len(events) :
          events[k].type = "new_booking"
             => /\ events[k].id \in BookingIds
                /\ bookings[events[k].id].station_id = events[k].stationId
    /\ \A p \in Procs :
          pc[p] \in {"station", "count", "slots", "insert", "commit"}
             => \A k \in 1..Len(events) : events[k].id # Len(bookings) + 1

\* the create was answered 201 and its new_booking event was delivered
C27_Witness ==
    /\ resp[1] = 201
    /\ Len(events) > 0
    /\ events[Len(events)] = Event("new_booking", req[1].station_id, tx[1].booking_id)

\* C24: when a statement of the booking transaction fails in the store, the
\* whole transaction is run again, and the error response is sent only after
\* the transaction has been begun more than once.
C24_FailureRetriedBeforeError ==
    [][\A p \in Procs : QueryFails(p) /\ resp'[p] = 500 => tx[p].begun > 1]_vars

\* C25: a station is never deleted while a booking on it is active: in no
\* reachable state is the station row gone while a booking that names the
\* station has status active.
C25_NoActiveBookingOnDeletedStation ==
    \A i \in BookingIds :
        bookings[i].status = "active" => bookings[i].station_id \in DOMAIN stations

\* C28: every pending or active booking's slot_number lies in 1..total_slots
\* of its station, also after the admin has changed total_slots.
C28_LiveSlotWithinTotal ==
    \A i \in BookingIds :
        (bookings[i].status \in {"pending", "active"} /\ bookings[i].station_id \in DOMAIN stations)
            => bookings[i].slot_number \in 1..stations[bookings[i].station_id].total_slots

C29_PowerLogAppendOnly ==
    [][power_logs' # power_logs
          => /\ Len(power_logs') = Len(power_logs) + 1
             /\ SubSeq(power_logs', 1, Len(power_logs)) = power_logs
             /\ lcall.id \in BookingIds
             /\ LET new == power_logs'[Len(power_logs')] IN
                /\ new.booking_id = lcall.id
                /\ new.station_id = bookings[lcall.id].station_id
                /\ \/ /\ \E ok \in BOOLEAN : PutPowerLog(ok)
                      /\ new.power_kw = lcall.power_kw
                      /\ bookings[lcall.id].power_consumption = lcall.power_kw
                   \/ /\ \E ok \in BOOLEAN : PutStatusLog(ok)
                      /\ new.power_kw = 0]_vars

\* the log holds the seed of an activation followed by a reading of a power
\* update for the same booking, and the power update was answered 200
C29_Witness ==
    /\ Len(power_logs) = 2
    /\ power_logs[1].power_kw = 0
    /\ power_logs[2].power_kw # 0
    /\ power_logs[2].booking_id = power_logs[1].booking_id
    /\ lres = 200
    /\ lcall = NoCall

\* C30: no booking operation removes a booking row: over create, status
\* update, power update and cancel the booking identifiers only grow, and a
\* cancel leaves the row in place with status cancelled.
C30_BookingIdsOnlyGrow ==
    [][/\ Len(bookings') >= Len(bookings)
       /\ \A id \in BookingIds :
             /\ bookings'[id].user_id = bookings[id].user_id
             /\ bookings'[id].station_id = bookings[id].station_id
             /\ bookings'[id].start_time = bookings[id].start_time
             /\ bookings'[id].end_time = bookings[id].end_time
             /\ (lres' = 200 /\ \E u \in Users, ok \in BOOLEAN : DeleteBooking(u, id, ok))
                   => bookings'[id].status = "cancelled"]_vars

\* both bookings were cancelled by their owner and both rows are still there
C30_Witness ==
    /\ Len(bookings) = MaxBookings
    /\ \A id \in BookingIds : bookings[id].status = "cancelled"
    /\ lres = 200

\* C31: in every reachable state every booking's power_consumption is at
\* least 0: a power update with a negative reading is not stored.
C31_PowerConsumptionNonNegative ==
    \A i \in BookingIds : bookings[i].power_consumption >= 0

\* C32: a booking is created with status pending and pending is never
\* re-entered: a status update, by the user or by the admin, whose value is
\* pending is answered 400 and changes nothing, and no step turns a booking
\* that is not pending into a pending one.
C32_PendingOnlyAtCreation ==
    [][/\ \A p \in Procs : Commit(p) => bookings'[Len(bookings')].status = "pending"
       /\ \A id \in BookingIds :
             bookings'[id].status = "pending" => bookings[id].status = "pending"
       /\ \A id \in 1..MaxBookings :
             ( \/ \E u \in Users, ok \in BOOLEAN : PutStatus(u, id, "pending", ok)
               \/ \E ok \in BOOLEAN : AdminPutStatus(id, "pending", ok) )
             => /\ lres' = 400
                /\ store' = store
                /\ events' = events
                /\ lcall' = lcall]_vars

\* a request to put an active booking back to pending was answered 400 and
\* the booking is still active
C32_Witness ==
    /\ lres = 400
    /\ Len(bookings) = MaxBookings
    /\ \A id \in BookingIds : bookings[id].status = "active"

\* C33: a request without a slot number that has passed the capacity test is
\* given a slot by the scan: the row it commits carries a slot_number of
\* 1..total_slots.
C33_ScanFindsSlot ==
    [][\A p \in Procs :
          (Commit(p) /\ req[p].slot_number = Missing)
          => bookings'[Len(bookings')].slot_number \in 1..tx[p].total_slots]_vars

\* live bookings of station st present at instant t
PresentAt(st, t) ==
    {i \in LiveOn(st) : bookings[i].start_time <= t /\ t < bookings[i].end_time}

\* C34: a request is turned away for capacity only if at some instant of the
\* requested window total_slots pending/active bookings are present on the
\* station together; with fewer present at every instant it is admitted.
C34_RejectedOnlyWhenFullAtAnInstant ==
    [][\A p \in Procs :
          (CountConflicts(p) /\ resp'[p] = 409)
          => \E t \in Times :
                /\ req[p].start_time <= t /\ t < req[p].end_time
                /\ Cardinality(PresentAt(req[p].station_id, t)) >= tx[p].total_slots]_vars

\* positions in power_logs of the entries of booking id
LogsOf(id) == {k \in 1..Len(power_logs) : power_logs[k].booking_id = id}

\* C35: once the power updates of a booking have all finished, the booking's
\* power_consumption is the reading of the entry appended last to the power
\* log for that booking.
C35_ConsumptionIsLastLoggedReading ==
    PowerInFlight = {}
    => \A id \in BookingIds :
          LogsOf(id) # {}
          => bookings[id].power_consumption =
                power_logs[CHOOSE k \in LogsOf(id) : \A j \in LogsOf(id) : j <= k].power_kw

\* C36: a status update or a power update that is answered 500 has written
\* nothing: the step that sends the 500 leaves bookings and power_logs as they
\* were.
C36_ErrorLeavesStoreUnchanged ==
    [][( /\ lres' = 500
         /\ \/ \E ok \in BOOLEAN : PutStatusLog(ok) \/ PutPowerLog(ok)
            \/ \E u \in Users, id \in BookingIds, s \in StatusInputs, ok \in BOOLEAN :
                  PutStatus(u, id, s, ok) )
       => /\ bookings' = bookings
          /\ power_logs' = power_logs]_vars

Frame(b) ==
    <<b.station_id, b.user_id, b.slot_number, b.start_time, b.end_time, b.total_cost>>

\* C38: after its creation a booking's station_id, user_id, slot_number,
\* start_time, end_time and total_cost are never changed: a status update,
\* an admin override, a power update or a cancellation changes at most the
\* status, power_consumption and updated_at of one booking.
C38_FrameOfBookingKept ==
    [][/\ \A id \in BookingIds : Frame(bookings'[id]) = Frame(bookings[id])
       /\ Len(bookings') = Len(bookings)
             => Cardinality({id \in BookingIds : bookings'[id] # bookings[id]}) <= 1]_vars

\* a booking that was activated, given a reading and cancelled at a later
\* time still has the slot, the owner and the cost of its creation
C38_Witness ==
    /\ Len(bookings) >= 1
    /\ bookings[1].status = "cancelled"
    /\ bookings[1].power_consumption # 0
    /\ bookings[1].updated_at = MaxClock
    /\ Frame(bookings[1]) = <<1, "u1", 1, 1, 2, 1250>>

====
